---- MODULE Spec2Model ----
(***************************************************************************)
(* A model of the stage planner (src/src/planner.rs) and of the shuffle    *)
(* writer operator (src/src/shuffle/writer.rs) of datafusion-ray.          *)
(*                                                                         *)
(* SpecPlanner: make_execution_graph run on a bounded physical plan, one   *)
(*   step per recursive call / node visit of generate_query_stages.        *)
(* SpecWriter:  one ShuffleWriterExec, one task per input partition, one   *)
(*   step per suspension point of the task (stream poll / file write).     *)
(*   The input streams yield batches, an error or their end; the runtime   *)
(*   may drop a task at a suspension point.  Failures of the file system   *)
(*   while writing or finishing a file are outside the model.              *)
(***************************************************************************)
EXTENDS Integers, Sequences, FiniteSets, TLC

\* ------------------------------------------------------------------ bounds
\* Largest partition count a scan of an input plan declares.
MaxParts == 2
\* Largest number of nodes of an input plan.
MaxNodes == 3
\* Largest number of batches an input stream yields.
MaxBatches == 2
\* Largest number of input partitions of the executed shuffle writer.
MaxInputParts == 2

\* ------------------------------------------------------------ partitioning
\* datafusion Partitioning: UnknownPartitioning(n), RoundRobinBatch(n),
\* Hash(exprs, n).  keys is the expression list (empty unless Hash).
UnknownPartitioning(n) == [kind |-> "Unknown", keys |-> <<>>, n |-> n]
RoundRobinBatch(n) == [kind |-> "RoundRobin", keys |-> <<>>, n |-> n]
HashPartitioning(keys, n) == [kind |-> "Hash", keys |-> keys, n |-> n]

\* A key expression is a resolved column ("a", "b") or an UnKnownColumn.
UnKnownColumn == "?"

\* Partitioning::partition_count
partition_count(p) == p.n

\* ------------------------------------------------------------------ plans
\* A physical plan node: kind, declared partitioning and children.  The
\* shuffle operators also carry the stage id they write / read.
Scan(p) == [kind |-> "Scan", part |-> p, children |-> <<>>]
Sort(c) == [kind |-> "Sort", part |-> UnknownPartitioning(0), children |-> <<c>>]
Union(l, r) == [kind |-> "Union", part |-> UnknownPartitioning(0), children |-> <<l, r>>]
Repartition(p, c) == [kind |-> "Repartition", part |-> p, children |-> <<c>>]
CoalescePartitions(c) ==
    [kind |-> "CoalescePartitions", part |-> UnknownPartitioning(1), children |-> <<c>>]
SortPreservingMerge(c) ==
    [kind |-> "SortPreservingMerge", part |-> UnknownPartitioning(1), children |-> <<c>>]

RECURSIVE output_partitioning(_)
\* plan.properties().output_partitioning() of the engine's operators: a scan,
\* a re-partition and the shuffle operators declare theirs, a coalesce and a
\* merge yield one partition, a sort keeps its child's, a union concatenates.
output_partitioning(plan) ==
    CASE plan.kind \in {"Scan", "Repartition", "ShuffleReader", "ShuffleWriter"} ->
            plan.part
      [] plan.kind \in {"CoalescePartitions", "SortPreservingMerge"} ->
            UnknownPartitioning(1)
      [] plan.kind = "Sort" -> output_partitioning(plan.children[1])
      [] plan.kind = "Union" ->
            UnknownPartitioning(
                partition_count(output_partitioning(plan.children[1]))
                    + partition_count(output_partitioning(plan.children[2])))

\* with_new_children_if_necessary: the same operator over the given children.
with_new_children_if_necessary(plan, new_children) ==
    [plan EXCEPT !.children = new_children]

\* ---------------------------------------------------------- shuffle operators
\* ShuffleWriterExec::new: the constructor's normalisation of the target
\* partitioning (Hash with no key becomes Unknown; UnKnownColumn keys of a
\* non-empty Hash key list are filtered out; anything else is kept).
NormalizePartitioning(partitioning) ==
    IF partitioning.kind = "Hash" /\ partitioning.keys = <<>>
    THEN UnknownPartitioning(partitioning.n)
    ELSE IF partitioning.kind = "Hash"
    THEN HashPartitioning(SelectSeq(partitioning.keys, LAMBDA e : e # UnKnownColumn),
                          partitioning.n)
    ELSE partitioning

ShuffleWriterExecNew(stage_id, plan, partitioning, shuffle_dir) ==
    [kind |-> "ShuffleWriter", part |-> NormalizePartitioning(partitioning),
     children |-> <<plan>>, stage_id |-> stage_id, shuffle_dir |-> shuffle_dir]

\* ShuffleReaderExec::new(stage_id, schema, partitioning, shuffle_dir): a leaf
\* that declares the partitioning it is given.
ShuffleReaderExecNew(stage_id, partitioning, shuffle_dir) ==
    [kind |-> "ShuffleReader", part |-> partitioning,
     children |-> <<>>, stage_id |-> stage_id, shuffle_dir |-> shuffle_dir]

\* ------------------------------------------------------------ ExecutionGraph
\* query_stages: stage id -> QueryStage; id_generator: the next id.
\* registered is a history of the ids add_query_stage was called with.
QueryStageNew(stage_id, plan) == [id |-> stage_id, plan |-> plan]

ExecutionGraphNew ==
    [query_stages |-> [i \in {} |-> 0], id_generator |-> 0, registered |-> <<>>]

add_query_stage(graph, stage_id, plan) ==
    [graph EXCEPT
        !.query_stages = (stage_id :> QueryStageNew(stage_id, plan)) @@ @,
        !.registered = Append(@, stage_id)]

\* A next_id that reads the counter without advancing it.
next_id_load(graph) == [id |-> graph.id_generator, graph |-> graph]

\* fetch_add(1): the id returned and the graph with the counter advanced.
next_id(graph) ==
    [id |-> graph.id_generator,
     graph |-> [graph EXCEPT !.id_generator = @ + 1]]

SetMax(S) == CHOOSE x \in S : \A y \in S : y <= x

\* get_final_query_stage: max_id starts at 0 and is raised by every larger key;
\* the stage under max_id is unwrapped (<<>> stands for the panic of unwrap).
get_final_query_stage(graph) ==
    LET max_id == SetMax(DOMAIN graph.query_stages \cup {0})
    IN  IF max_id \in DOMAIN graph.query_stages
        THEN <<graph.query_stages[max_id]>>
        ELSE <<>>

\* ------------------------------------------------------------------ planner
\* create_temp_dir: the directory of a stage (the uuid is left out); dir_ok
\* is the outcome of std::fs::create_dir.
create_temp_dir(stage_id) == stage_id

\* A create_shuffle_exchange whose reader takes its id from the counter after
\* the mint instead of the minted id.
create_shuffle_exchange_stale_id(plan, graph, partitioning_scheme, dir_ok) ==
    LET minted == next_id(graph)
        stage_id == minted.id
        temp_dir == create_temp_dir(stage_id)
        shuffle_writer ==
            ShuffleWriterExecNew(stage_id, plan, partitioning_scheme, temp_dir)
    IN  IF ~dir_ok
        THEN [ok |-> FALSE, graph |-> minted.graph, plan |-> plan]
        ELSE [ok |-> TRUE,
              graph |-> add_query_stage(minted.graph, stage_id, shuffle_writer),
              plan |-> ShuffleReaderExecNew(minted.graph.id_generator,
                                            partitioning_scheme, temp_dir)]

\* create_shuffle_exchange: mint an id, create the directory (an error returns
\* early), register the writer over plan as a stage, return the reader.
create_shuffle_exchange(plan, graph, partitioning_scheme, dir_ok) ==
    LET minted == next_id(graph)
        stage_id == minted.id
        temp_dir == create_temp_dir(stage_id)
        shuffle_writer ==
            ShuffleWriterExecNew(stage_id, plan, partitioning_scheme, temp_dir)
    IN  IF ~dir_ok
        THEN [ok |-> FALSE, graph |-> minted.graph, plan |-> plan]
        ELSE [ok |-> TRUE,
              graph |-> add_query_stage(minted.graph, stage_id, shuffle_writer),
              plan |-> ShuffleReaderExecNew(stage_id, partitioning_scheme, temp_dir)]

\* A dispatch that also elides a re-partition whose child already declares the
\* target partitioning.
rewrite_node_elide_equal(plan, graph, dir_ok) ==
    IF plan.kind = "Repartition"
    THEN IF \/ plan.part.kind \in {"Unknown", "RoundRobin"}
            \/ output_partitioning(plan.children[1]) = plan.part
         THEN [ok |-> TRUE, graph |-> graph, plan |-> plan.children[1]]
         ELSE create_shuffle_exchange(plan.children[1], graph, plan.part, dir_ok)
    ELSE IF plan.kind \in {"CoalescePartitions", "SortPreservingMerge"}
    THEN LET coalesce_input == plan.children[1]
             partitioning_scheme == output_partitioning(coalesce_input)
             new_input == create_shuffle_exchange(coalesce_input, graph,
                                                  partitioning_scheme, dir_ok)
         IN  [new_input EXCEPT
                !.plan = IF new_input.ok
                         THEN with_new_children_if_necessary(plan, <<new_input.plan>>)
                         ELSE plan]
    ELSE [ok |-> TRUE, graph |-> graph, plan |-> plan]

\* A dispatch that shuffles under a coalesce-partitions node only: an
\* order-preserving merge is left as it is.
rewrite_node_skip_merge(plan, graph, dir_ok) ==
    IF plan.kind = "Repartition"
    THEN IF plan.part.kind \in {"Unknown", "RoundRobin"}
         THEN [ok |-> TRUE, graph |-> graph, plan |-> plan.children[1]]
         ELSE create_shuffle_exchange(plan.children[1], graph, plan.part, dir_ok)
    ELSE IF plan.kind \in {"CoalescePartitions"}
    THEN LET coalesce_input == plan.children[1]
             partitioning_scheme == output_partitioning(coalesce_input)
             new_input == create_shuffle_exchange(coalesce_input, graph,
                                                  partitioning_scheme, dir_ok)
         IN  [new_input EXCEPT
                !.plan = IF new_input.ok
                         THEN with_new_children_if_necessary(plan, <<new_input.plan>>)
                         ELSE plan]
    ELSE [ok |-> TRUE, graph |-> graph, plan |-> plan]

\* A dispatch that fuses pipeline breakers: a breaker directly on top of
\* another breaker gets no shuffle of its own.
rewrite_node_fuse(plan, graph, dir_ok) ==
    IF plan.kind = "Repartition"
    THEN IF plan.part.kind \in {"Unknown", "RoundRobin"}
         THEN [ok |-> TRUE, graph |-> graph, plan |-> plan.children[1]]
         ELSE create_shuffle_exchange(plan.children[1], graph, plan.part, dir_ok)
    ELSE IF /\ plan.kind \in {"CoalescePartitions", "SortPreservingMerge"}
            /\ plan.children[1].kind \notin {"CoalescePartitions", "SortPreservingMerge"}
    THEN LET coalesce_input == plan.children[1]
             partitioning_scheme == output_partitioning(coalesce_input)
             new_input == create_shuffle_exchange(coalesce_input, graph,
                                                  partitioning_scheme, dir_ok)
         IN  [new_input EXCEPT
                !.plan = IF new_input.ok
                         THEN with_new_children_if_necessary(plan, <<new_input.plan>>)
                         ELSE plan]
    ELSE [ok |-> TRUE, graph |-> graph, plan |-> plan]

\* The dispatch of generate_query_stages on a node whose children have been
\* rewritten already (lines 150-181).
rewrite_node(plan, graph, dir_ok) ==
    IF plan.kind = "Repartition"
    THEN IF plan.part.kind \in {"Unknown", "RoundRobin"}
         THEN [ok |-> TRUE, graph |-> graph, plan |-> plan.children[1]]
         ELSE create_shuffle_exchange(plan.children[1], graph, plan.part, dir_ok)
    ELSE IF plan.kind \in {"CoalescePartitions", "SortPreservingMerge"}
    THEN LET coalesce_input == plan.children[1]
             partitioning_scheme == output_partitioning(coalesce_input)
             new_input == create_shuffle_exchange(coalesce_input, graph,
                                                  partitioning_scheme, dir_ok)
         IN  [new_input EXCEPT
                !.plan = IF new_input.ok
                         THEN with_new_children_if_necessary(plan, <<new_input.plan>>)
                         ELSE plan]
    ELSE [ok |-> TRUE, graph |-> graph, plan |-> plan]

\* The final step of make_execution_graph (lines 121-126).
final_stage(root, graph) ==
    LET minted == next_id(graph)
    IN  IF partition_count(output_partitioning(root)) > 1
        THEN add_query_stage(minted.graph, minted.id, CoalescePartitions(root))
        ELSE add_query_stage(minted.graph, minted.id, root)

\* ------------------------------------------------------------- input plans
ScanPartitionings ==
    {UnknownPartitioning(n) : n \in 0..MaxParts}
        \cup {RoundRobinBatch(MaxParts), HashPartitioning(<<"a">>, MaxParts)}

KeyLists == {<<>>, <<"a">>, <<UnKnownColumn>>, <<"a", UnKnownColumn>>}

RepartitionTargets ==
    {UnknownPartitioning(MaxParts), RoundRobinBatch(MaxParts)}
        \cup {HashPartitioning(k, MaxParts) : k \in KeyLists}

RECURSIVE PlansOfSize(_)
PlansOfSize(n) ==
    IF n = 1
    THEN {Scan(p) : p \in ScanPartitionings}
    ELSE LET sub == PlansOfSize(n - 1)
         IN  {Sort(c) : c \in sub}
                \cup {CoalescePartitions(c) : c \in sub}
                \cup {SortPreservingMerge(c) : c \in sub}
                \cup {Repartition(t, c) : t \in RepartitionTargets, c \in sub}
                \cup UNION {{Union(l, r) : l \in PlansOfSize(i),
                                           r \in PlansOfSize(n - 1 - i)}
                            : i \in 1..(n - 2)}

Plans == UNION {PlansOfSize(n) : n \in 1..MaxNodes}

\* -------------------------------------------------------------------- state
VARIABLES
    plan,    \* the plan given to make_execution_graph
    stack,   \* the active calls of generate_query_stages: the node of each
             \* call and the rewritten children collected so far
    root,    \* <<r>> once generate_query_stages has returned r for the plan
    graph,   \* the ExecutionGraph being built
    pc,      \* "generate", "root", "done" (Ok(graph)) or "error" (Err)
    exchange,\* the executed shuffle exchange: its writer and its reader
    tasks,   \* input partition -> the writer task of that partition
    files    \* the stage directory: file name -> batches written, finished

planner_vars == <<plan, stack, root, graph, pc>>
writer_vars == <<exchange, tasks, files>>
vars == <<plan, stack, root, graph, pc, exchange, tasks, files>>

NoFiles == [name \in {} |-> 0]

Frame(p) == [plan |-> p, new_children |-> <<>>]
Top == stack[Len(stack)]
Pop == SubSeq(stack, 1, Len(stack) - 1)

PlannerInit ==
    /\ plan \in Plans
    /\ stack = <<Frame(plan)>>
    /\ root = <<>>
    /\ graph = ExecutionGraphNew
    /\ pc = "generate"
    /\ exchange = <<>>
    /\ tasks = <<>>
    /\ files = NoFiles

\* generate_query_stages recurses into the next child (lines 137-141).
Descend ==
    /\ pc = "generate"
    /\ Len(Top.new_children) < Len(Top.plan.children)
    /\ stack' = Append(stack, Frame(Top.plan.children[Len(Top.new_children) + 1]))
    /\ UNCHANGED <<plan, root, graph, pc>>
    /\ UNCHANGED writer_vars

\* The value a call returns goes to its caller: the parent call collects it
\* as a rewritten child, make_execution_graph receives the root.
Return(new_plan) ==
    IF Len(stack) = 1
    THEN /\ stack' = <<>>
         /\ root' = <<new_plan>>
         /\ pc' = "root"
    ELSE /\ stack' = [Pop EXCEPT ![Len(stack) - 1].new_children =
                                        Append(@, new_plan)]
         /\ UNCHANGED root
         /\ pc' = "generate"

\* A call whose children are all rewritten rebuilds its node and dispatches
\* on its shape (lines 142-189); an error of create_temp_dir ends the planning.
Visit ==
    /\ pc = "generate"
    /\ Len(Top.new_children) = Len(Top.plan.children)
    /\ \E dir_ok \in BOOLEAN :
         LET rebuilt == with_new_children_if_necessary(Top.plan, Top.new_children)
             out == rewrite_node(rebuilt, graph, dir_ok)
         IN  /\ graph' = out.graph
             /\ IF out.ok
                THEN Return(out.plan)
                ELSE /\ pc' = "error"
                     /\ UNCHANGED <<stack, root>>
    /\ UNCHANGED plan
    /\ UNCHANGED writer_vars

\* make_execution_graph registers the final stage and returns the graph.
MakeFinalStage ==
    /\ pc = "root"
    /\ graph' = final_stage(root[1], graph)
    /\ pc' = "done"
    /\ UNCHANGED <<plan, stack, root>>
    /\ UNCHANGED writer_vars

PlannerNext == Descend \/ Visit \/ MakeFinalStage

SpecPlanner == PlannerInit /\ [][PlannerNext]_vars

\* ------------------------------------------------------------ shuffle writer
\* A row has the columns a and b; a batch is a sequence of rows.
Row(a, b) == [a |-> a, b |-> b]
BatchPool == {<<Row(0, 0), Row(1, 0), Row(0, 1)>>, <<Row(1, 1)>>}

RECURSIVE hash_row(_, _, _)
\* The hash of the key columns of a row, one column combined after the other
\* (stands for the engine's create_hashes; no key leaves the initial 0).
hash_row(row, keys, i) ==
    IF i = 0
    THEN 0
    ELSE hash_row(row, keys, i - 1) * 31 + row[keys[i]] + 1

\* BatchPartitioner::partition for Hash(keys, n): the rows of the batch whose
\* hash mod n is q, in the order of the batch, for every output partition q.
partition(batch, partitioning) ==
    [q \in 0..(partitioning.n - 1) |->
        SelectSeq(batch,
                  LAMBDA row : hash_row(row, partitioning.keys,
                                        Len(partitioning.keys)) % partitioning.n = q)]

\* format!("/{shuffle_dir}/shuffle_{stage_id}_{input_partition}_{output_partition}.arrow")
file_name(shuffle_dir, stage_id, input_partition, output_partition) ==
    [dir |-> shuffle_dir, stage_id |-> stage_id,
     input_partition |-> input_partition, output_partition |-> output_partition]

\* File::create / IPCWriter::new: an empty, unfinished file under the name.
create_file(fs, name) == (name :> [batches |-> <<>>, finished |-> FALSE]) @@ fs
\* FileWriter::write / IPCWriter::write
write_batch(fs, name, batch) == [fs EXCEPT ![name].batches = Append(@, batch)]
\* FileWriter::finish / IPCWriter::finish
finish_file(fs, name) == [fs EXCEPT ![name].finished = TRUE]

\* A closure that hands every sub-batch to the first writer.
writer_index_first(output_partition) == 0

\* The output partition whose writer receives the sub-batch the partitioner
\* reports for output_partition (writers[output_partition], lines 178, 184).
writer_index(output_partition) == output_partition

\* The closure given to partitioner.partition, run for every non-empty
\* sub-batch (lines 177-196): the writer of the output partition is opened on
\* its first sub-batch and the sub-batch is written to it.
hash_write(fs, exec, input_partition, parts) ==
    LET name(q) == file_name(exec.shuffle_dir, exec.stage_id, input_partition,
                             writer_index(q))
        hit == {q \in DOMAIN parts : parts[q] # <<>>}
        subs(nm) == {q \in hit : name(q) = nm}
        opened == {name(q) : q \in hit}
    IN  [nm \in DOMAIN fs \cup opened |->
            LET before == IF nm \in DOMAIN fs
                          THEN fs[nm]
                          ELSE [batches |-> <<>>, finished |-> FALSE]
            IN  IF subs(nm) = {}
                THEN before
                ELSE [before EXCEPT
                        !.batches = @ \o [i \in 1..Cardinality(subs(nm)) |->
                            parts[CHOOSE q \in subs(nm) :
                                    Cardinality({r \in subs(nm) : r < q}) = i - 1]]]]

\* A closure that opens a writer and does not keep it in the vector.
hash_writers_forget(writers, parts) == writers

\* The writers vector after the closure ran for every non-empty sub-batch.
hash_writers(writers, parts) ==
    [q \in DOMAIN writers |->
        IF \E r \in DOMAIN parts : parts[r] # <<>> /\ writer_index(r) = q
        THEN "Some" ELSE writers[q]]

\* The loop over the writers after the stream is exhausted (lines 199-215).
hash_finish(fs, exec, input_partition, writers) ==
    [nm \in DOMAIN fs |->
        IF \E q \in DOMAIN writers :
              /\ writers[q] = "Some"
              /\ nm = file_name(exec.shuffle_dir, exec.stage_id, input_partition, q)
        THEN [fs[nm] EXCEPT !.finished = TRUE]
        ELSE fs[nm]]

\* An Unknown arm that names its file without the input partition.
unknown_file_shared(exec, input_partition) ==
    file_name(exec.shuffle_dir, exec.stage_id, 0, 0)

\* The file of the Unknown arm (line 144): output partition 0.
unknown_file(exec, input_partition) ==
    file_name(exec.shuffle_dir, exec.stage_id, input_partition, 0)

NewTask ==
    [pc |-> "new", child_executed |-> FALSE, produced |-> <<>>,
     writers |-> <<>>, output |-> <<>>]

\* The partitionings a writer over m input partitions is constructed with.
WriterSchemes(m) ==
    {UnknownPartitioning(m), UnknownPartitioning(MaxParts), RoundRobinBatch(MaxParts)}
        \cup {HashPartitioning(k, MaxParts) : k \in KeyLists}

WriterInit ==
    /\ \E m \in 1..MaxInputParts :
         \E scheme \in WriterSchemes(m) :
            LET made == create_shuffle_exchange(Scan(UnknownPartitioning(m)),
                                                ExecutionGraphNew, scheme, TRUE)
            IN  /\ exchange = [writer |-> made.graph.query_stages[0].plan,
                               reader |-> made.plan]
                /\ tasks = [p \in 0..(m - 1) |-> NewTask]
    /\ files = NoFiles
    /\ plan = <<>>
    /\ stack = <<>>
    /\ root = <<>>
    /\ graph = ExecutionGraphNew
    /\ pc = "idle"

exec == exchange.writer
InputPartitions == DOMAIN tasks

\* ShuffleWriterExec::execute (lines 115-135, 239-244): the child is executed
\* for the partition, an error of it is returned; otherwise the stream over
\* the async block is returned, the block not yet polled.
Execute(p) ==
    /\ tasks[p].pc = "new"
    /\ \E child_ok \in BOOLEAN :
         tasks' = [tasks EXCEPT
                     ![p].pc = IF child_ok THEN "stream" ELSE "execute_error",
                     ![p].child_executed = TRUE]
    /\ UNCHANGED <<exchange, files>>
    /\ UNCHANGED planner_vars

\* The first poll of the stream starts the async block (lines 136-163, 277-287):
\* Round-robin is unimplemented!(), the Unknown arm creates its file (a failed
\* File::create is unwrapped: a panic), the Hash arm sets up its writers.
Start(p) ==
    /\ tasks[p].pc = "stream"
    /\ CASE exec.part.kind = "RoundRobin" ->
              /\ tasks' = [tasks EXCEPT ![p].pc = "panic"]
              /\ UNCHANGED files
         [] exec.part.kind = "Unknown" ->
              \E created \in BOOLEAN :
                 IF created
                 THEN /\ files' = create_file(files, unknown_file(exec, p))
                      /\ tasks' = [tasks EXCEPT ![p].pc = "unknown_loop"]
                 ELSE /\ tasks' = [tasks EXCEPT ![p].pc = "panic"]
                      /\ UNCHANGED files
         [] exec.part.kind = "Hash" ->
              /\ tasks' = [tasks EXCEPT
                             ![p].pc = "hash_loop",
                             ![p].writers =
                                 [q \in 0..(partition_count(exec.part) - 1) |-> "None"]]
              /\ UNCHANGED files
    /\ UNCHANGED exchange
    /\ UNCHANGED planner_vars

\* The single-row metrics batch the block returns as its stream (lines 225-237).
MetricsBatch == <<"metrics">>

\* stream.next() yields a batch (lines 165-197, 289-300).
NextBatch(p) ==
    /\ tasks[p].pc \in {"unknown_loop", "hash_loop"}
    /\ Len(tasks[p].produced) < MaxBatches
    /\ \E input_batch \in BatchPool :
         IF tasks[p].pc = "unknown_loop"
         THEN /\ files' = write_batch(files, unknown_file(exec, p), input_batch)
              /\ tasks' = [tasks EXCEPT ![p].produced = Append(@, input_batch)]
         ELSE LET parts == partition(input_batch, exec.part)
              IN  /\ files' = hash_write(files, exec, p, parts)
                  /\ tasks' = [tasks EXCEPT
                                 ![p].produced = Append(@, input_batch),
                                 ![p].writers = hash_writers(@, parts)]
    /\ UNCHANGED exchange
    /\ UNCHANGED planner_vars

\* stream.next() yields an error: the block returns it (lines 166, 290).
NextError(p) ==
    /\ tasks[p].pc \in {"unknown_loop", "hash_loop"}
    /\ tasks' = [tasks EXCEPT ![p].pc = "error"]
    /\ UNCHANGED <<exchange, files>>
    /\ UNCHANGED planner_vars

\* stream.next() yields None: the files are finished and the metrics batch is
\* returned (lines 199-237, 301-309).
EndOfStream(p) ==
    /\ tasks[p].pc \in {"unknown_loop", "hash_loop"}
    /\ files' = IF tasks[p].pc = "unknown_loop"
                THEN finish_file(files, unknown_file(exec, p))
                ELSE hash_finish(files, exec, p, tasks[p].writers)
    /\ tasks' = [tasks EXCEPT ![p].pc = "done", ![p].output = MetricsBatch]
    /\ UNCHANGED exchange
    /\ UNCHANGED planner_vars

\* The host runtime drops the task at a suspension point (the stream not yet
\* polled, or waiting for the child's stream).
Cancel(p) ==
    /\ tasks[p].pc \in {"stream", "unknown_loop", "hash_loop"}
    /\ tasks' = [tasks EXCEPT ![p].pc = "cancelled"]
    /\ UNCHANGED <<exchange, files>>
    /\ UNCHANGED planner_vars

WriterNext ==
    \/ \E p \in InputPartitions : Execute(p)
    \/ \E p \in InputPartitions : Start(p)
    \/ \E p \in InputPartitions : NextBatch(p)
    \/ \E p \in InputPartitions : NextError(p)
    \/ \E p \in InputPartitions : EndOfStream(p)
    \/ \E p \in InputPartitions : Cancel(p)

SpecWriter == WriterInit /\ [][WriterNext]_vars

\* ------------------------------------------------------------ shuffle reader
RECURSIVE read_files(_, _, _, _)
\* ShuffleReaderExec::execute(output_partition): the batches of the files of
\* the stage directory named shuffle_{stage_id}_*_{output_partition}.arrow,
\* file after file in the order of their names.
read_files(fs, reader, output_partition, input_partition) ==
    IF input_partition < 0
    THEN <<>>
    ELSE LET name == file_name(reader.shuffle_dir, reader.stage_id,
                               input_partition, output_partition)
         IN  read_files(fs, reader, output_partition, input_partition - 1)
                \o (IF name \in DOMAIN fs THEN fs[name].batches ELSE <<>>)

reader_execute(fs, reader, output_partition) ==
    read_files(fs, reader, output_partition,
               SetMax({nm.input_partition : nm \in DOMAIN fs} \cup {0}))

\* PyExecutionGraph::get_query_stages: the stages under the ids 0..=max_id, in
\* that order (<<>> stands for the panic of an unwrap on a missing id).
get_query_stages(g) ==
    LET final == get_final_query_stage(g)
    IN  IF final = <<>>
        THEN <<>>
        ELSE IF \A id \in 0..final[1].id : id \in DOMAIN g.query_stages
        THEN <<[i \in 1..(final[1].id + 1) |-> g.query_stages[i - 1]]>>
        ELSE <<>>

\* =================================================================== claims
StageIds == DOMAIN graph.query_stages

RECURSIVE Readers(_)
\* The shuffle readers that occur in a plan.
Readers(p) ==
    IF p.kind = "ShuffleReader"
    THEN {p}
    ELSE UNION {Readers(p.children[i]) : i \in DOMAIN p.children}

Breakers == {"CoalescePartitions", "SortPreservingMerge"}

\* A call of generate_query_stages is about to dispatch on its node.
AtNode == pc = "generate" /\ Len(Top.new_children) = Len(Top.plan.children)

\* The plan the call that dispatches in this step returns to its caller.
Returned ==
    IF Len(stack) = 1
    THEN root'[1]
    ELSE LET collected == stack'[Len(stack) - 1].new_children
         IN  collected[Len(collected)]

\* C1: when make_execution_graph succeeds, the stage ids of the graph are
\* exactly 0..N, no id was registered twice, and get_query_stages finds a
\* stage under every id of 0..=max_id.
C1_IdContiguity ==
    pc = "done" =>
        /\ StageIds # {}
        /\ StageIds = 0..SetMax(StageIds)
        /\ \A i, j \in DOMAIN graph.registered :
              i # j => graph.registered[i] # graph.registered[j]
        /\ get_query_stages(graph) # <<>>
        /\ Len(get_query_stages(graph)[1]) = Cardinality(StageIds)

C1_Witness == pc = "done" /\ Cardinality(StageIds) = 3

\* C2: the final stage of the returned graph (the stage of maximum id) has an
\* output partitioning of partition count exactly 1, whatever the input plan.
C2_FinalStageSinglePartition ==
    pc = "done" =>
        partition_count(output_partitioning(get_final_query_stage(graph)[1].plan)) = 1

\* C3: every shuffle reader inside the plan of stage k references a stage id
\* strictly less than k that is present in the stage map.
C3_DagAcyclic ==
    \A k \in StageIds :
        \A r \in Readers(graph.query_stages[k].plan) :
            r.stage_id < k /\ r.stage_id \in StageIds

C3_Witness ==
    /\ pc = "done"
    /\ \E k \in StageIds :
          /\ graph.query_stages[k].plan.kind = "ShuffleWriter"
          /\ Readers(graph.query_stages[k].plan) # {}

\* C4: a re-partition node with an Unknown or Round-robin target is replaced
\* by its rewritten child and registers no stage; a re-partition node with a
\* Hash target (whatever its child declares) registers exactly one new stage
\* and is replaced by a shuffle reader of that stage.
C4_Elision ==
    [][(AtNode /\ Top.plan.kind = "Repartition" /\ pc' # "error") =>
        IF Top.plan.part.kind \in {"Unknown", "RoundRobin"}
        THEN /\ graph' = graph
             /\ Returned = Top.new_children[1]
        ELSE /\ Top.plan.part.kind = "Hash"
             /\ Cardinality(DOMAIN graph'.query_stages) = Cardinality(StageIds) + 1
             /\ StageIds \subseteq DOMAIN graph'.query_stages
             /\ Returned.kind = "ShuffleReader"
             /\ Returned.stage_id \in DOMAIN graph'.query_stages \ StageIds
             /\ graph'.query_stages[Returned.stage_id].plan.kind = "ShuffleWriter"
      ]_vars

C4_Witness ==
    /\ pc = "done"
    /\ plan.kind = "Repartition"
    /\ plan.part.kind = "Hash"
    /\ output_partitioning(plan.children[1]) = plan.part
    /\ Cardinality(StageIds) = 2
    /\ root[1].kind = "ShuffleReader"

RECURSIVE CountBreakers(_, _), CountBreakersIn(_, _, _)
\* The number of coalesce-partitions and order-preserving-merge nodes of a
\* plan; with shuffled_only, of those whose sole child is a shuffle reader.
CountBreakers(p, shuffled_only) ==
    (IF /\ p.kind \in Breakers
        /\ (shuffled_only => p.children[1].kind = "ShuffleReader")
     THEN 1 ELSE 0) + CountBreakersIn(p.children, 1, shuffled_only)
CountBreakersIn(children, i, shuffled_only) ==
    IF i > Len(children)
    THEN 0
    ELSE CountBreakers(children[i], shuffled_only)
            + CountBreakersIn(children, i + 1, shuffled_only)

\* The plan of stage k as generate_query_stages left it: the final stage
\* without the coalesce-partitions node make_execution_graph may put on top.
RewrittenPlan(k) ==
    IF k = SetMax(StageIds) THEN root[1] ELSE graph.query_stages[k].plan

RECURSIVE CountInStages(_, _)
CountInStages(k, shuffled_only) ==
    IF k \notin StageIds
    THEN 0
    ELSE CountBreakers(RewrittenPlan(k), shuffled_only)
            + CountInStages(k + 1, shuffled_only)

\* Every breaker of the input plan is in the stage plans, over a reader.
AllBreakersShuffled ==
    pc = "done" =>
        /\ CountInStages(0, TRUE) = CountBreakers(plan, FALSE)
        /\ CountInStages(0, FALSE) = CountBreakers(plan, FALSE)

\* C5: a coalesce-partitions or order-preserving-merge node comes out with a
\* shuffle reader as its sole child, and its former child (as rewritten by the
\* recursion) is the input of the shuffle writer of the stage the reader
\* references; in the returned graph every such node of the input plan is
\* there, over its reader.
C5_BreakerShuffle ==
    /\ []AllBreakersShuffled
    /\ [][(AtNode /\ Top.plan.kind \in Breakers /\ pc' # "error") =>
        /\ Returned.kind = Top.plan.kind
        /\ Len(Returned.children) = 1
        /\ Returned.children[1].kind = "ShuffleReader"
        /\ LET sid == Returned.children[1].stage_id
           IN  /\ sid \in DOMAIN graph'.query_stages \ StageIds
               /\ graph'.query_stages[sid].plan.kind = "ShuffleWriter"
               /\ graph'.query_stages[sid].plan.children = <<Top.new_children[1]>>
      ]_vars

C5_Witness ==
    /\ pc = "done"
    /\ plan.kind = "CoalescePartitions"
    /\ plan.children[1].kind = "SortPreservingMerge"
    /\ root[1].children[1].kind = "ShuffleReader"
    /\ graph.query_stages[root[1].children[1].stage_id].plan.children[1].kind
          = "SortPreservingMerge"

\* ------------------------------------------------------ shuffle writer claims
Range(seq) == {seq[i] : i \in DOMAIN seq}

\* The multiset of the elements of a sequence.
BagOf(seq) == [x \in Range(seq) |-> Cardinality({i \in DOMAIN seq : seq[i] = x})]

RECURSIVE Flatten(_)
\* The rows of a sequence of batches, in order.
Flatten(batches) ==
    IF batches = <<>> THEN <<>> ELSE Head(batches) \o Flatten(Tail(batches))

RECURSIVE ProducedUpTo(_)
\* The batches the input streams of the partitions 0..p have yielded.
ProducedUpTo(p) ==
    IF p < 0 THEN <<>> ELSE ProducedUpTo(p - 1) \o tasks[p].produced

RECURSIVE WrittenBy(_, _)
\* The batches in the files of input partition p, output partitions 0..q.
WrittenBy(p, q) ==
    IF q < 0
    THEN <<>>
    ELSE LET name == file_name(exec.shuffle_dir, exec.stage_id, p, q)
         IN  WrittenBy(p, q - 1)
                \o (IF name \in DOMAIN files THEN files[name].batches ELSE <<>>)

AllDone == \A p \in InputPartitions : tasks[p].pc = "done"

\* C6: Unknown target, every writer task completed without error: the batches
\* the reader yields for output partition 0 are, as a multiset, the batches of
\* all input partitions, and the file of each input partition holds the
\* batches of that partition in the order its stream produced them.
C6_UnknownRoundTrip ==
    (exec.part.kind = "Unknown" /\ AllDone) =>
        /\ BagOf(reader_execute(files, exchange.reader, 0))
              = BagOf(ProducedUpTo(SetMax(InputPartitions)))
        /\ \A p \in InputPartitions :
              /\ unknown_file(exec, p) \in DOMAIN files
              /\ files[unknown_file(exec, p)].batches = tasks[p].produced
              /\ files[unknown_file(exec, p)].finished

C6_Witness ==
    /\ exec.part.kind = "Unknown"
    /\ AllDone
    /\ Cardinality(InputPartitions) = 2
    /\ Len(tasks[0].produced) = 2
    /\ tasks[0].produced[1] # tasks[0].produced[2]
    /\ tasks[1].produced = <<tasks[0].produced[1]>>

\* C7: Hash(keys, n) target: every row in the file of output partition q has
\* hash(row.keys) mod n = q, and the rows the input stream of a partition has
\* yielded are, each exactly once, in the files of that partition.
C7_HashLocality ==
    exec.part.kind = "Hash" =>
        /\ \A nm \in DOMAIN files :
              \A row \in Range(Flatten(files[nm].batches)) :
                 hash_row(row, exec.part.keys, Len(exec.part.keys))
                     % partition_count(exec.part) = nm.output_partition
        /\ \A p \in InputPartitions :
              BagOf(Flatten(WrittenBy(p, partition_count(exec.part) - 1)))
                  = BagOf(Flatten(tasks[p].produced))

C7_Witness ==
    /\ exec.part.kind = "Hash"
    /\ exec.part.keys = <<"a">>
    /\ tasks[0].pc = "done"
    /\ \E n0, n1 \in DOMAIN files :
          /\ n0.input_partition = 0 /\ n0.output_partition = 0
          /\ n1.input_partition = 0 /\ n1.output_partition = 1
          /\ files[n0].batches # <<>>
          /\ files[n1].batches # <<>>

\* C8: at every point of a writer task, no file that has been written to but
\* not finished is visible under shuffle_{stage_id}_*_{output_partition}.arrow.
C8_NoPartialFileVisible ==
    \A nm \in DOMAIN files :
        files[nm].batches # <<>> => files[nm].finished

\* C9: a writer with a Round-robin target returns a not-supported error before
\* the child is executed or polled and before any file is created, and never
\* aborts the task.
C9_RoundRobinEagerError ==
    exec.part.kind = "RoundRobin" =>
        /\ files = NoFiles
        /\ \A p \in InputPartitions :
              /\ ~tasks[p].child_executed
              /\ tasks[p].pc \notin {"stream", "panic"}

\* C10: an exchange that carries the partitioning of its subtree unchanged
\* hands partition q of the subtree to partition q of the reader: same rows,
\* same order.
C10_PartitionPreserved ==
    (exchange.reader.part = output_partitioning(exec.children[1]) /\ AllDone) =>
        \A q \in 0..(partition_count(exchange.reader.part) - 1) :
            Flatten(reader_execute(files, exchange.reader, q))
                = Flatten(tasks[q].produced)

\* The partitioning the writer was constructed with (the reader of the
\* exchange is given the same one).
GivenPartitioning == exchange.reader.part

\* C11: a writer whose Hash key list is empty after the constructor's
\* normalisation (given empty, or emptied by the filter of unresolvable
\* columns) stores Unknown(n) and writes each input partition p pass-through
\* to shuffle_{stage}_{p}_0.arrow; the stored target is never Hash with no
\* key; a partitioning that is not Hash is stored unchanged.
C11_EmptyKeysStoredUnknown ==
    /\ (/\ GivenPartitioning.kind = "Hash"
        /\ SelectSeq(GivenPartitioning.keys, LAMBDA e : e # UnKnownColumn) = <<>>) =>
            /\ exec.part = UnknownPartitioning(GivenPartitioning.n)
            /\ \A p \in InputPartitions :
                  tasks[p].pc = "done" =>
                      /\ unknown_file(exec, p) \in DOMAIN files
                      /\ files[unknown_file(exec, p)].batches = tasks[p].produced
    /\ ~(exec.part.kind = "Hash" /\ exec.part.keys = <<>>)
    /\ GivenPartitioning.kind # "Hash" => exec.part = GivenPartitioning

RECURSIVE CountHashRepartitions(_), CountHashRepartitionsIn(_, _)
\* The number of re-partition nodes of a plan whose target is Hash.
CountHashRepartitions(p) ==
    (IF p.kind = "Repartition" /\ p.part.kind = "Hash" THEN 1 ELSE 0)
        + CountHashRepartitionsIn(p.children, 1)
CountHashRepartitionsIn(children, i) ==
    IF i > Len(children)
    THEN 0
    ELSE CountHashRepartitions(children[i]) + CountHashRepartitionsIn(children, i + 1)

\* C12: the returned graph has 1 + (re-partition nodes with a Hash target) +
\* (coalesce-partitions and order-preserving-merge nodes) stages, also when
\* breakers sit directly on top of each other; the coalesce-partitions node
\* make_execution_graph adds goes right on top of the rewritten root, with no
\* stage and no shuffle of its own.
C12_NoFusion ==
    pc = "done" =>
        /\ Cardinality(StageIds)
              = 1 + CountHashRepartitions(plan) + CountBreakers(plan, FALSE)
        /\ graph.query_stages[SetMax(StageIds)].plan =
              IF partition_count(output_partitioning(root[1])) > 1
              THEN CoalescePartitions(root[1])
              ELSE root[1]

C12_Witness ==
    /\ pc = "done"
    /\ plan.kind = "CoalescePartitions"
    /\ plan.children[1].kind = "SortPreservingMerge"
    /\ plan.children[1].children[1].kind = "Scan"
    /\ Cardinality(StageIds) = 3

\* C14: whatever partitionings the nodes of the input plan declare, no stage
\* of the graph is a shuffle writer whose target partitioning is Round-robin.
C14_NoRoundRobinWriter ==
    \A k \in StageIds :
        graph.query_stages[k].plan.kind = "ShuffleWriter" =>
            graph.query_stages[k].plan.part.kind # "RoundRobin"

\* The shuffle file of input partition p and output partition q.
HashFile(p, q) == file_name(exec.shuffle_dir, exec.stage_id, p, q)

\* The output partitions some batch the stream of p has yielded has a row for.
Received(p) ==
    UNION {LET parts == partition(tasks[p].produced[i], exec.part)
           IN  {q \in DOMAIN parts : parts[q] # <<>>} :
               i \in DOMAIN tasks[p].produced}

IsPrefix(s, t) == Len(s) <= Len(t) /\ SubSeq(t, 1, Len(s)) = s

\* In every state of a Hash writer: a file exists exactly for the output
\* partitions that received a sub-batch, its writer is the open one of the
\* vector, it is finished only once the task is done, a done task has
\* finished all its files, and the metrics batch is out only then.
HashWritersState ==
    exec.part.kind = "Hash" =>
        \A p \in InputPartitions :
            /\ LET received == Received(p)
               IN  \A q \in DOMAIN tasks[p].writers :
                       /\ (tasks[p].writers[q] = "Some") <=> (HashFile(p, q) \in DOMAIN files)
                       /\ (HashFile(p, q) \in DOMAIN files) <=> (q \in received)
                       /\ HashFile(p, q) \in DOMAIN files =>
                             /\ files[HashFile(p, q)].batches # <<>>
                             /\ files[HashFile(p, q)].finished <=> tasks[p].pc = "done"
            /\ \A nm \in DOMAIN files :
                  nm.input_partition = p => nm.output_partition \in DOMAIN tasks[p].writers
            /\ tasks[p].output # <<>> =>
                  /\ tasks[p].pc = "done"
                  /\ tasks[p].output = MetricsBatch
                  /\ \A nm \in DOMAIN files :
                        nm.input_partition = p => files[nm].finished

\* In every step of a Hash writer: a file appears with the first sub-batch of
\* its output partition, for a writer that was not open; an existing file is
\* never opened again (what it holds stays), is finished in the step that ends
\* its task's stream, and is left alone once finished.
HashWritersStep ==
    exec.part.kind = "Hash" =>
        /\ \A nm \in DOMAIN files :
              /\ nm \in DOMAIN files'
              /\ IsPrefix(files[nm].batches, files'[nm].batches)
              /\ files[nm].finished => files'[nm] = files[nm]
              /\ (~files[nm].finished /\ files'[nm].finished) =>
                    /\ tasks[nm.input_partition].pc = "hash_loop"
                    /\ tasks'[nm.input_partition].pc = "done"
                    /\ files'[nm].batches = files[nm].batches
        /\ \A nm \in DOMAIN files' \ DOMAIN files :
              /\ Len(files'[nm].batches) = 1
              /\ ~files'[nm].finished
              /\ tasks[nm.input_partition].writers[nm.output_partition] = "None"
              /\ tasks'[nm.input_partition].writers[nm.output_partition] = "Some"

\* C13: in a Hash writer task the file writer of output partition q is opened
\* at most once, with the first sub-batch for q; no writer is finalised while
\* the stream still has batches; at the end of the stream every opened writer
\* is finalised once and the metrics batch comes after; an output partition
\* without sub-batch gets no file.
C13_LazyWriters == []HashWritersState /\ [][HashWritersStep]_vars

C13_Witness ==
    /\ exec.part.kind = "Hash"
    /\ exec.part.keys = <<"a">>
    /\ partition_count(exec.part) = 2
    /\ tasks[0].pc = "done"
    /\ tasks[0].output = MetricsBatch
    /\ Len(tasks[0].produced) = 2
    /\ Cardinality(Received(0)) = 1
    /\ \E q \in Received(0) :
          /\ Len(files[HashFile(0, q)].batches) = 2
          /\ files[HashFile(0, q)].finished
    /\ \A q \in (0..1) \ Received(0) : HashFile(0, q) \notin DOMAIN files

====
